---- MODULE Spec2Model ----
(***************************************************************************)
(* A model of qlik_script_generator.py: generate_das_qvs reads a YAML      *)
(* schema, builds the QVS script as a list of lines (a header, then one    *)
(* block per table) and writes the lines, joined by newlines, to           *)
(* data_according_to_system.qvs.                                           *)
(*                                                                         *)
(* Text.  A Python string that the program inspects (a table name, a       *)
(* column name, a description) is a sequence of one-character strings.     *)
(* A line of the script is a sequence of pieces whose concatenation is the *)
(* line's text: a piece is a literal chunk of the program's template or    *)
(* one character of an input string.  The names of the five per-table      *)
(* script variables, the single quotes that delimit a comment string and   *)
(* the comma that ends a list entry are pieces of their own.               *)
(***************************************************************************)
EXTENDS Integers, Sequences, FiniteSets, TLC

(***************************************************************************)
(* Bounds of the model.                                                    *)
(***************************************************************************)
MaxTables == 2
MaxCols == 2
MaxDescLen == 3
MaxRuns == 2

(***************************************************************************)
(* Python string operations.                                               *)
(***************************************************************************)

\* The printable ASCII characters from chr(32) to chr(95), and from chr(97)
\* to chr(126).
AsciiToUnderscore ==
    <<" ", "!", "\"", "#", "$", "%", "&", "'", "(", ")", "*", "+",
       ",", "-", ".", "/", "0", "1", "2", "3", "4", "5", "6", "7",
       "8", "9", ":", ";", "<", "=", ">", "?", "@", "A", "B", "C",
       "D", "E", "F", "G", "H", "I", "J", "K", "L", "M", "N", "O",
       "P", "Q", "R", "S", "T", "U", "V", "W", "X", "Y", "Z", "[",
       "\\", "]", "^", "_" >>

AsciiFromLowerA ==
    <<"a", "b", "c", "d", "e", "f", "g", "h", "i", "j", "k", "l",
       "m", "n", "o", "p", "q", "r", "s", "t", "u", "v", "w", "x",
       "y", "z", "{", "|", "}", "~" >>

\* Two characters outside ASCII, each written by its code point: chr(0xE9)
\* and the lone surrogate chr(0xD800), which a YAML escape "\uD800" loads.
EAcute == "U+00E9"
LoneSurrogate == "U+D800"

\* ord(c)
CodePoint(c) ==
    IF c = EAcute THEN 233
    ELSE IF c = LoneSurrogate THEN 55296
    ELSE IF \E k \in 1..Len(AsciiToUnderscore) : AsciiToUnderscore[k] = c
    THEN 31 + (CHOOSE k \in 1..Len(AsciiToUnderscore) : AsciiToUnderscore[k] = c)
    ELSE 96 + (CHOOSE k \in 1..Len(AsciiFromLowerA) : AsciiFromLowerA[k] = c)

\* The encodings open() takes from the locale, and the characters of the
\* inputs that text.encode(encoding) raises UnicodeEncodeError on.  The
\* template is ASCII and encodes under both.
Encodings == {"utf-8", "ascii"}
Unencodable(enc) == IF enc = "ascii" THEN {EAcute, LoneSurrogate} ELSE {LoneSurrogate}
CanEncode(text, enc) == \A k \in 1..Len(text) : text[k] \notin Unencodable(enc)

\* s.startswith(p)
StartsWith(s, p) ==
    /\ Len(p) <= Len(s)
    /\ SubSeq(s, 1, Len(p)) = p

\* s.endswith(p)
EndsWith(s, p) ==
    /\ Len(p) <= Len(s)
    /\ SubSeq(s, Len(s) - Len(p) + 1, Len(s)) = p

\* sub in s
Contains(s, sub) ==
    \E k \in 1..(Len(s) - Len(sub) + 1) : SubSeq(s, k, k + Len(sub) - 1) = sub

\* a < b on str: by code point, a proper prefix first.
RECURSIVE StrLess(_, _)
StrLess(a, b) ==
    IF b = <<>> THEN FALSE
    ELSE IF a = <<>> THEN TRUE
    ELSE IF Head(a) = Head(b) THEN StrLess(Tail(a), Tail(b))
    ELSE CodePoint(Head(a)) < CodePoint(Head(b))

Sep == <<"_", "_">>

\* s.split('__'): the pieces between the occurrences of the separator found
\* scanning from the left, each occurrence starting after the one before.
RECURSIVE SplitFrom(_, _)
SplitFrom(s, cur) ==
    IF s = <<>> THEN <<cur>>
    ELSE IF StartsWith(s, Sep)
         THEN <<cur>> \o SplitFrom(SubSeq(s, Len(Sep) + 1, Len(s)), <<>>)
         ELSE SplitFrom(Tail(s), Append(cur, Head(s)))

Split(s) == SplitFrom(s, <<>>)

\* A variant: table_name.rsplit('__', 1)[-1], the part after the last "__".
EntityNameByRightSplit(table_name) ==
    LET cuts == {k \in 1..(Len(table_name) - 1) : SubSeq(table_name, k, k + 1) = Sep}
    IN  IF cuts = {} THEN table_name
        ELSE LET k == CHOOSE k \in cuts : \A j \in cuts : j <= k
             IN  SubSeq(table_name, k + 2, Len(table_name))

\* table_name.split('__')[-1]
EntityName(table_name) ==
    LET parts == Split(table_name) IN parts[Len(parts)]

Quote == "'"
Chr39 == <<"$", "(", "=", "C", "h", "r", "3", "9", "(", ")", ")">>

\* A variant: desc.replace("'", "$(=Chr39())", 1), the first quote only.
RECURSIVE EscapeFirstQuote(_)
EscapeFirstQuote(desc) ==
    IF desc = <<>> THEN <<>>
    ELSE IF Head(desc) = Quote THEN Chr39 \o Tail(desc)
    ELSE <<Head(desc)>> \o EscapeFirstQuote(Tail(desc))

\* desc.replace("'", "$(=Chr39())")
RECURSIVE EscapeQuotes(_)
EscapeQuotes(desc) ==
    IF desc = <<>> THEN <<>>
    ELSE IF Head(desc) = Quote THEN Chr39 \o EscapeQuotes(Tail(desc))
    ELSE <<Head(desc)>> \o EscapeQuotes(Tail(desc))

\* '\n'.join(lines), as one sequence of pieces.
RECURSIVE Join(_)
Join(lines) ==
    IF lines = <<>> THEN <<>>
    ELSE IF Len(lines) = 1 THEN lines[1]
    ELSE LET half == Len(lines) \div 2
         IN  Join(SubSeq(lines, 1, half)) \o <<"\n">>
             \o Join(SubSeq(lines, half + 1, Len(lines)))

(***************************************************************************)
(* The script template.  L(s) is a line that is one literal chunk.         *)
(***************************************************************************)
L(s) == <<s>>

Blank == <<>>

\* The script variables every table block sets and resets.
PerTableVars ==
    {"val__qvd_target", "val__target_qvd_exists", "val__incremental_value",
     "var__record_hash", "val__no_of_new_records"}

Header ==
    << L("Trace"),
       L("==============================================================="),
       L("    DATA ACCORDING TO SYSTEM"),
       L("    Script generated by Qlik Script Generator"),
       L("==============================================================="),
       L(";") >>

Banner(T) ==
    << L("Trace"),
       L("---------------------------------------------------------------"),
       <<"    Extracting ">> \o T,
       L("---------------------------------------------------------------"),
       L(";") >>

VariableSetup(T) ==
    << L("Trace Setting variables...;"),
       <<"Let ", "val__qvd_target", " = '$(val__qvd_path__das)/">> \o T \o <<".qvd';">>,
       <<"Let ", "val__target_qvd_exists", " = Not IsNull(QvdCreateTime('$(",
         "val__qvd_target", ")'));">>,
       <<"Let ", "val__incremental_value", " = '1970-01-01';">>,
       Blank >>

HashTableDefinition ==
    << L("Trace Define hash table...;"),
       L("[processed_record_hashes]:"),
       L("Load"),
       L("    Null() As [old_record_hash]"),
       L("AutoGenerate 0"),
       L(";"),
       Blank >>

HistoricalLoad ==
    << L("Trace Checking if target QVD exists...;"),
       <<"If $(", "val__target_qvd_exists", ") Then">>,
       L("    Trace Target found, loading hashes and max incremental value...;"),
       Blank,
       L("    Concatenate([processed_record_hashes])"),
       L("    Load"),
       L("        [record_hash] As [old_record_hash]"),
       Blank,
       L("    From"),
       <<"        [$(", "val__qvd_target", ")] (qvd)">>,
       L("    ;"),
       Blank,
       L("    [max_incremental_value]:"),
       L("    Load"),
       L("        Date(Max(Num#([modified_date])), 'YYYY-MM-DD') As [max_incremental_value]"),
       L("    From"),
       <<"        [$(", "val__qvd_target", ")] (qvd)">>,
       L("    ;"),
       Blank,
       <<"    Let ", "val__incremental_value",
         " = Coalesce(Peek('max_incremental_value', -1, 'max_incremental_value'), '$(",
         "val__incremental_value", ")');">>,
       L("    Drop Table [max_incremental_value];"),
       Blank,
       L("Else"),
       L("    Trace Target not found, starting full load...;"),
       Blank,
       L("End If"),
       Blank >>

NewDataTrace ==
    << <<"Trace Loading new data with incremental value $(",
         "val__incremental_value", ")...;">> >>

HashCalculation(hash_lines) ==
    << <<"Set ", "var__record_hash", " = Hash256(">> >>
    \o hash_lines
    \o << L(")"), L(";"), Blank >>

TableLoad(T) ==
    << <<"[">> \o T \o <<"]:">>,
       L("Load"),
       L("    *,"),
       <<"    $(", "var__record_hash", ") As [record_hash],">>,
       L("    Timestamp#('$(val__utc)', 'YYYY-MM-DD hh:mm:ss.ffffff') As [record_loaded_at]"),
       Blank,
       L("Where"),
       <<"    Not Exists ([old_record_hash], $(", "var__record_hash", "))">>,
       L(";"),
       Blank >>

FieldLoad(T, load_lines) ==
    << L("Load") >>
    \o load_lines
    \o << Blank,
          L("From"),
          <<"    [lib://OneDrive - mattias.thalen@two.se/Qlik/Analytical Data Storage System/data/das.">>
            \o T \o <<".parquet] (parquet)">>,
          Blank,
          L("Where"),
          <<"    Date([modified_date], 'YYYY-MM-DD') >= Date#('$(",
            "val__incremental_value", ")', 'YYYY-MM-DD')">>,
          L(";"),
          Blank >>

CleanupAndCount(T) ==
    << L("Trace Dropping hash table...;"),
       L("Drop Table [processed_record_hashes];"),
       Blank,
       L("Trace Counting new records...;"),
       <<"Set ", "val__no_of_new_records", " = Alt(NoOfRows('">> \o T \o <<"'), 0);">>,
       Blank >>

AppendPrevious(T) ==
    << L("Trace Checking if there are new records...;"),
       <<"If $(", "val__no_of_new_records", ") > 0 Then">>,
       Blank,
       L("    Trace Checking if target QVD exists...;"),
       <<"    If $(", "val__target_qvd_exists", ") Then">>,
       L("        Trace Appending previously ingested data...;"),
       Blank,
       <<"        Concatenate([">> \o T \o <<"])">>,
       <<"        Load * From [$(", "val__qvd_target", ")] (qvd) Where Not Exists ([record_hash]);">>,
       Blank,
       L("    Else"),
       L("        Trace Target not found, skipping append...;"),
       Blank,
       L("    End If"),
       Blank >>

\* The table comment, for a table_info that has a description.
TableComment(T, description) ==
    IF description.kind = "absent" THEN <<>>
    ELSE << L("    Trace Commenting table...;"),
            <<"    Comment Table [">> \o T \o <<"] With ", Quote>>
              \o EscapeQuotes(description.chars) \o <<Quote, ";">>,
            Blank >>

\* The field comments, each indented, when there is any.
FieldCommentBlock(comments) ==
    IF comments = <<>> THEN <<>>
    ELSE << L("    Trace Commenting fields...;") >>
         \o [k \in 1..Len(comments) |-> <<"    ">> \o comments[k]]
         \o << Blank >>

StoreData(T) ==
    << L("    Trace Storing data...;"),
       <<"    Store [">> \o T \o <<"] Into [$(val__qvd_path__das)/">> \o T \o <<".qvd] (qvd);">>,
       Blank,
       L("Else"),
       L("    Trace No new records loaded...;"),
       Blank,
       L("End If"),
       Blank >>

DropTable(T) ==
    << L("Trace Dropping table...;"),
       <<"Drop Table [">> \o T \o <<"];">>,
       Blank >>

\* A variant: only the variables of the variable setup are reset.
VariableResetOfSetupOnly ==
    << L("Trace Resetting variables...;"),
       <<"Let ", "val__qvd_target", " = Null();">>,
       <<"Let ", "val__target_qvd_exists", " = Null();">>,
       <<"Let ", "val__incremental_value", " = Null();">>,
       Blank >>

VariableReset ==
    << L("Trace Resetting variables...;"),
       <<"Let ", "val__qvd_target", " = Null();">>,
       <<"Let ", "val__target_qvd_exists", " = Null();">>,
       <<"Let ", "val__incremental_value", " = Null();">>,
       <<"Let ", "var__record_hash", " = Null();">>,
       <<"Let ", "val__no_of_new_records", " = Null();">>,
       Blank >>

\* A variant: the hash calculation is appended before the trace message.
TableLinesHashFirst(T, description, hash_lines, load_lines, comments) ==
    Banner(T) \o VariableSetup(T) \o HashTableDefinition \o HistoricalLoad
    \o HashCalculation(hash_lines) \o NewDataTrace
    \o TableLoad(T) \o FieldLoad(T, load_lines)
    \o CleanupAndCount(T) \o AppendPrevious(T)
    \o TableComment(T, description) \o FieldCommentBlock(comments)
    \o StoreData(T) \o DropTable(T) \o VariableReset

\* table_lines, in the order the appends are made.
TableLines(T, description, hash_lines, load_lines, comments) ==
    Banner(T) \o VariableSetup(T) \o HashTableDefinition \o HistoricalLoad
    \o NewDataTrace \o HashCalculation(hash_lines)
    \o TableLoad(T) \o FieldLoad(T, load_lines)
    \o CleanupAndCount(T) \o AppendPrevious(T)
    \o TableComment(T, description) \o FieldCommentBlock(comments)
    \o StoreData(T) \o DropTable(T) \o VariableReset

(***************************************************************************)
(* Field classification, ordering and the rendered field lists.            *)
(* A column is a pair <<column_name, column_info>>.                        *)
(***************************************************************************)
DltPrefix == <<"_", "d", "l", "t", "_">>
IdSuffix == <<"_", "i", "d">>
Rowguid == <<"r", "o", "w", "g", "u", "i", "d">>
ModifiedDate == <<"m", "o", "d", "i", "f", "i", "e", "d", "_", "d", "a", "t", "e">>

\* A variant: the _id tests come before the _dlt_ test.
ClassifyKeysFirst(column_name, entity_name) ==
    IF EndsWith(column_name, IdSuffix) /\ Contains(column_name, entity_name)
    THEN "primary"
    ELSE IF EndsWith(column_name, IdSuffix) THEN "foreign"
    ELSE IF StartsWith(column_name, DltPrefix) THEN "dropped"
    ELSE IF column_name \in {Rowguid, ModifiedDate} THEN "system"
    ELSE "regular"

\* The if/elif chain that decides the list a column is appended to.
Classify(column_name, entity_name) ==
    IF StartsWith(column_name, DltPrefix) THEN "dropped"
    ELSE IF column_name \in {Rowguid, ModifiedDate} THEN "system"
    ELSE IF EndsWith(column_name, IdSuffix) /\ Contains(column_name, entity_name)
         THEN "primary"
    ELSE IF EndsWith(column_name, IdSuffix) THEN "foreign"
    ELSE "regular"

\* The columns appended to one category's list, in insertion order.
Category(columns, entity_name, cat) ==
    SelectSeq(columns, LAMBDA c : Classify(c[1], entity_name) = cat)

\* list.sort(key=lambda x: x[0]): a stable sort by column name.
RECURSIVE InsertByName(_, _)
InsertByName(sorted, c) ==
    IF sorted = <<>> THEN <<c>>
    ELSE IF StrLess(c[1], Head(sorted)[1]) THEN <<c>> \o sorted
    ELSE <<Head(sorted)>> \o InsertByName(Tail(sorted), c)

\* A variant: the lists are left in insertion order.
Unsorted(list) == list

RECURSIVE SortByName(_)
SortByName(list) ==
    IF list = <<>> THEN <<>>
    ELSE InsertByName(SortByName(SubSeq(list, 1, Len(list) - 1)), list[Len(list)])

\* primary_keys + foreign_keys + regular_fields + system_fields
SortedColumns(pk, fk, reg, sys) == pk \o fk \o reg \o sys

\* A variant: i < len, a comma on every entry.
TrailingCommaOnAll(k, n) == IF k - 1 < n THEN <<",">> ELSE <<>>

\* Whether entry k of n (counted from 1) gets the trailing comma: i < len - 1.
TrailingComma(k, n) == IF k - 1 < n - 1 THEN <<",">> ELSE <<>>

HashFields(sorted) ==
    [k \in 1..Len(sorted) |->
        <<"    [">> \o sorted[k][1] \o <<"]">> \o TrailingComma(k, Len(sorted))]

FieldLoadLines(sorted) ==
    [k \in 1..Len(sorted) |->
        <<"    Text([">> \o sorted[k][1] \o <<"]) As [">> \o sorted[k][1] \o <<"]">>
        \o TrailingComma(k, Len(sorted))]

\* The comment of one column that has a description.
FieldComment(column_name, description) ==
    <<"Comment Field [">> \o column_name \o <<"] With ", Quote>>
    \o EscapeQuotes(description.chars) \o <<Quote, ";">>

FieldComments(sorted) ==
    LET described == SelectSeq(sorted, LAMBDA c : c[2].description.kind # "absent")
    IN  [k \in 1..Len(described) |->
            FieldComment(described[k][1], described[k][2].description)]

\* The table iteration raises: a None where a mapping or a string is used.
TableRaises(table_info, sorted) ==
    \/ table_info.kind = "none"
    \/ table_info.columns.kind = "none"
    \/ \E k \in 1..Len(sorted) :
          \/ sorted[k][2].kind = "none"
          \/ sorted[k][2].description.kind = "none"
    \/ table_info.description.kind = "none"

(***************************************************************************)
(* The values yaml.safe_load returns.  A mapping keeps its insertion order *)
(* as a sequence of <<key, value>> pairs; kind "none" is a key whose value *)
(* is None, kind "absent" a key that is not there.                         *)
(***************************************************************************)
NoDesc == [kind |-> "absent", chars |-> <<>>]
NullDesc == [kind |-> "none", chars |-> <<>>]
StrDesc(cs) == [kind |-> "str", chars |-> cs]

ColInfo(d) == [kind |-> "map", description |-> d]
NullColInfo == [kind |-> "none", description |-> NoDesc]

NoColumns == [kind |-> "absent", items |-> <<>>]
NullColumns == [kind |-> "none", items |-> <<>>]
Columns(items) == [kind |-> "map", items |-> items]

TableInfo(cols, d) == [kind |-> "map", columns |-> cols, description |-> d]
NullTableInfo == [kind |-> "none", columns |-> NoColumns, description |-> NoDesc]

NoTables == [kind |-> "absent", items |-> <<>>]
NullTables == [kind |-> "none", items |-> <<>>]
Tables(items) == [kind |-> "map", items |-> items]

\* The schema file: missing, not YAML, or the document it parses to.
MissingFile == [kind |-> "missing", tables |-> NoTables]
InvalidYaml == [kind |-> "invalid", tables |-> NoTables]
EmptyDocument == [kind |-> "none", tables |-> NoTables]
Document(tables) == [kind |-> "map", tables |-> tables]
Unset == [kind |-> "unset", tables |-> NoTables]

(***************************************************************************)
(* The inputs of the model.                                                *)
(***************************************************************************)
\* The sequences of at most n distinct elements of S.
DistinctSeqs(S, n) ==
    UNION {{q \in [1..k -> S] : \A a, b \in 1..k : a # b => q[a] # q[b]} : k \in 0..n}

\* The strings of at most n characters of S.
Strings(S, n) == UNION {[1..k -> S] : k \in 0..n}

TableNames ==
    { <<>>,
      <<"b">>,
      <<"a", "b">>,
      <<"a", "_", "_", "b">>,
      <<"a", "_", "_", "_", "b">>,
      <<"b", "_", "_", "a", "_", "_", "b">>,
      <<"b", "_", "_">>,
      <<"b", "_", "_", "_">> }

ColumnNames ==
    { <<"_", "d", "l", "t", "_", "i", "d">>,
      Rowguid,
      ModifiedDate,
      <<"a", "_", "i", "d">>,
      <<"b", "_", "i", "d">>,
      <<"a", "b", "_", "i", "d">>,
      <<"b">>,
      <<"B">> }

Descriptions == Strings({Quote, "s"}, MaxDescLen)

TableDescriptions == {NoDesc} \cup {StrDesc(d) : d \in Descriptions}

\* One table, every name, every insertion order of at most MaxCols columns.
ColumnDocuments ==
    { Document(Tables(<< <<T, TableInfo(Columns([k \in 1..Len(q) |-> <<q[k], ColInfo(NoDesc)>>]),
                                       NoDesc)>> >>)) :
        T \in TableNames, q \in DistinctSeqs(ColumnNames, MaxCols) }

\* One table whose description and whose columns' descriptions vary.
CommentDocuments ==
    { Document(Tables(<< << <<"a", "_", "_", "b">>,
          TableInfo(Columns(<< << <<"B">>, ColInfo(StrDesc(<<"s">>)) >>,
                               << <<"_", "d", "l", "t", "_", "i", "d">>, ColInfo(StrDesc(<<Quote>>)) >>,
                               << <<"b", "_", "i", "d">>, ColInfo(d) >>,
                               << <<"a", "_", "i", "d">>, ColInfo(NoDesc) >> >>),
                    td) >> >>)) :
        d \in TableDescriptions, td \in TableDescriptions }

\* The tables the multi-table documents are made of: well-formed ones and
\* ones on which the iteration raises.
ExampleColumns ==
    << << <<"b", "_", "i", "d">>, ColInfo(StrDesc(<<"s">>)) >>,
       << <<"a", "_", "i", "d">>, ColInfo(NoDesc) >>,
       << Rowguid, ColInfo(NoDesc) >>,
       << <<"b">>, ColInfo(NoDesc) >>,
       << <<"_", "d", "l", "t", "_", "i", "d">>, ColInfo(StrDesc(<<"s">>)) >>,
       << ModifiedDate, ColInfo(NoDesc) >> >>

TablePool ==
    { << <<"a", "_", "_", "b">>, TableInfo(Columns(ExampleColumns), StrDesc(<<"s", Quote, "s">>)) >>,
      << <<"b">>, TableInfo(NoColumns, NoDesc) >>,
      << <<"a", "b">>,
         TableInfo(Columns(<< << <<"_", "d", "l", "t", "_", "i", "d">>, NullColInfo >> >>), NoDesc) >>,
      << <<"b", "_", "_">>, NullTableInfo >>,
      << <<>>, TableInfo(NullColumns, NoDesc) >>,
      << <<"b", "_", "_", "_">>,
         TableInfo(Columns(<< << <<"b", "_", "i", "d">>, NullColInfo >> >>), NoDesc) >>,
      << <<"a", "_", "_", "_", "b">>, TableInfo(NoColumns, NullDesc) >> }

\* One table whose names and descriptions hold a character outside ASCII.
EncodingDocuments ==
    { Document(Tables(<< << T,
          TableInfo(Columns(<< << cn, ColInfo(cd) >>,
                               << <<"b", "_", "i", "d">>, ColInfo(NoDesc) >> >>),
                    td) >> >>)) :
        T \in {<<"b">>} \cup {<<"b", c>> : c \in {EAcute, LoneSurrogate}},
        cn \in {<<"B">>} \cup {<<c, "_", "i", "d">> : c \in {EAcute, LoneSurrogate}},
        cd \in {NoDesc} \cup {StrDesc(<<"s", c, Quote>>) : c \in {EAcute, LoneSurrogate}},
        td \in {NoDesc} \cup {StrDesc(<<c>>) : c \in {EAcute, LoneSurrogate}} }

StructureDocuments ==
    {MissingFile, InvalidYaml, EmptyDocument, Document(NoTables), Document(NullTables)}
    \cup {Document(Tables(q)) : q \in DistinctSeqs(TablePool, MaxTables)}

\* script_path / "data_according_to_system.qvs"
output_path == "scripts/data_according_to_system.qvs"

\* The output directory and the output file before the first run.
NoDirectory == [kind |-> "nodir", content |-> <<>>]
NoFile == [kind |-> "absent", content |-> <<>>]
File(content) == [kind |-> "file", content |-> content]
OldFile == File(<<"old script">>)

(***************************************************************************)
(* The state: the files, the position in generate_das_qvs and its locals.  *)
(***************************************************************************)
VARIABLES
    schema_file,      \* the file at schema_path
    encoding,         \* the encoding open() uses for text, set by the locale
    out_file,         \* script_path / "data_according_to_system.qvs"
    stdout,           \* the messages printed
    run,              \* the number of the invocation
    pc,               \* the position in generate_das_qvs
    schema_data,
    output,
    i,                \* the position of the for loop over the tables
    table_name,
    entity_name,
    primary_keys,
    foreign_keys,
    regular_fields,
    system_fields,
    sorted_columns,
    hash_fields,
    field_load_lines,
    field_comments

files == <<schema_file, encoding, out_file>>
categories == <<primary_keys, foreign_keys, regular_fields, system_fields, sorted_columns>>
field_lists == <<hash_fields, field_load_lines, field_comments>>
locals == <<schema_data, output, i, table_name, entity_name, categories, field_lists>>
vars == <<files, stdout, run, pc, locals>>

\* The locals of an invocation that has not bound them yet.
Unbound ==
    /\ schema_data = Unset
    /\ output = <<>>
    /\ i = 0
    /\ table_name = <<>>
    /\ entity_name = <<>>
    /\ primary_keys = <<>>
    /\ foreign_keys = <<>>
    /\ regular_fields = <<>>
    /\ system_fields = <<>>
    /\ sorted_columns = <<>>
    /\ hash_fields = <<>>
    /\ field_load_lines = <<>>
    /\ field_comments = <<>>

Init ==
    /\ \/ /\ schema_file \in StructureDocuments
          /\ out_file \in {NoDirectory, NoFile, OldFile}
          /\ encoding = "utf-8"
       \/ /\ schema_file \in ColumnDocuments \cup CommentDocuments
          /\ out_file = NoFile
          /\ encoding = "utf-8"
       \/ /\ schema_file \in EncodingDocuments
          /\ out_file \in {NoFile, OldFile}
          /\ encoding \in Encodings
    /\ stdout = <<>>
    /\ run = 1
    /\ pc = "start"
    /\ Unbound

\* A variant: the output file is opened for writing before the schema is read.
ReadSchemaAfterOpeningOutput ==
    /\ pc = "start"
    /\ IF schema_file.kind \in {"missing", "invalid"}
       THEN /\ pc' = "failed"
            /\ UNCHANGED schema_data
       ELSE /\ pc' = "loaded"
            /\ schema_data' = schema_file
    /\ out_file' = IF out_file.kind = "nodir" THEN out_file ELSE File(<<>>)
    /\ UNCHANGED <<schema_file, encoding, stdout, run, output, i, table_name, entity_name,
                   categories, field_lists>>

\* with open(schema_path, 'r') as f: schema_data = yaml.safe_load(f)
ReadSchema ==
    /\ pc = "start"
    /\ IF schema_file.kind \in {"missing", "invalid"}
       THEN /\ pc' = "failed"
            /\ UNCHANGED schema_data
       ELSE /\ pc' = "loaded"
            /\ schema_data' = schema_file
    /\ UNCHANGED <<files, stdout, run, output, i, table_name, entity_name,
                   categories, field_lists>>

\* output = [] and the six appends of the header.
AppendHeader ==
    /\ pc = "loaded"
    /\ output' = Header
    /\ pc' = "header"
    /\ UNCHANGED <<files, stdout, run, schema_data, i, table_name, entity_name,
                   categories, field_lists>>

\* if 'tables' in schema_data: for ... in schema_data['tables'].items():
EnterTables ==
    /\ pc = "header"
    /\ IF schema_data.kind = "none" \/ schema_data.tables.kind = "none"
       THEN /\ pc' = "failed"
            /\ UNCHANGED i
       ELSE IF schema_data.tables.kind = "absent" \/ schema_data.tables.items = <<>>
       THEN /\ pc' = "write"
            /\ UNCHANGED i
       ELSE /\ pc' = "tables"
            /\ i' = 1
    /\ UNCHANGED <<files, stdout, run, schema_data, output, table_name, entity_name,
                   categories, field_lists>>

\* One iteration of the loop over the tables.
ProcessTable ==
    /\ pc = "tables"
    /\ LET items == schema_data.tables.items
           T == items[i][1]
           table_info == items[i][2]
           has_columns == table_info.kind = "map" /\ table_info.columns.kind = "map"
           E == EntityName(T)
           columns == table_info.columns.items
           pk == SortByName(Category(columns, E, "primary"))
           fk == SortByName(Category(columns, E, "foreign"))
           reg == SortByName(Category(columns, E, "regular"))
           sys == SortByName(Category(columns, E, "system"))
           sorted == IF has_columns THEN SortedColumns(pk, fk, reg, sys) ELSE <<>>
       IN  IF TableRaises(table_info, sorted)
           THEN /\ pc' = "failed"
                /\ UNCHANGED <<output, i, table_name, entity_name, categories, field_lists>>
           ELSE /\ table_name' = T
                /\ entity_name' = E
                /\ IF has_columns
                   THEN /\ primary_keys' = pk
                        /\ foreign_keys' = fk
                        /\ regular_fields' = reg
                        /\ system_fields' = sys
                        /\ sorted_columns' = sorted
                   ELSE UNCHANGED categories
                /\ hash_fields' = HashFields(sorted)
                /\ field_load_lines' = FieldLoadLines(sorted)
                /\ field_comments' = FieldComments(sorted)
                /\ output' = output \o TableLines(T, table_info.description,
                                                  HashFields(sorted), FieldLoadLines(sorted),
                                                  FieldComments(sorted))
                /\ i' = i + 1
                /\ pc' = IF i = Len(items) THEN "write" ELSE "tables"
    /\ UNCHANGED <<files, stdout, run, schema_data>>

\* A variant: open(output_path, 'a'), the lines are appended to the file.
WriteOutputAppending ==
    /\ pc = "write"
    /\ IF out_file.kind = "nodir"
       THEN /\ pc' = "failed"
            /\ UNCHANGED out_file
       ELSE IF ~CanEncode(Join(output), encoding)
       THEN /\ pc' = "failed"
            /\ out_file' = File(out_file.content)
       ELSE /\ pc' = "written"
            /\ out_file' = File(out_file.content \o Join(output))
    /\ UNCHANGED <<schema_file, encoding, stdout, run, locals>>

\* with open(output_path, 'w') as f: f.write('\n'.join(output))
\* open() raises when the directory is missing; otherwise it creates or
\* truncates the file, and f.write raises before any byte is written when
\* the text has a character the encoding lacks, which leaves the file empty.
WriteOutput ==
    /\ pc = "write"
    /\ IF out_file.kind = "nodir"
       THEN /\ pc' = "failed"
            /\ UNCHANGED out_file
       ELSE IF ~CanEncode(Join(output), encoding)
       THEN /\ pc' = "failed"
            /\ out_file' = File(<<>>)
       ELSE /\ pc' = "written"
            /\ out_file' = File(Join(output))
    /\ UNCHANGED <<schema_file, encoding, stdout, run, locals>>

\* print(f"Generated QVS file at: {output_path}")
PrintConfirmation ==
    /\ pc = "written"
    /\ stdout' = Append(stdout, "Generated QVS file at: " \o output_path)
    /\ pc' = "done"
    /\ UNCHANGED <<files, run, locals>>

\* The program is run again on the same schema file and output directory.
Rerun ==
    /\ pc \in {"done", "failed"}
    /\ run < MaxRuns
    /\ run' = run + 1
    /\ pc' = "start"
    /\ schema_data' = Unset
    /\ output' = <<>>
    /\ i' = 0
    /\ table_name' = <<>>
    /\ entity_name' = <<>>
    /\ primary_keys' = <<>>
    /\ foreign_keys' = <<>>
    /\ regular_fields' = <<>>
    /\ system_fields' = <<>>
    /\ sorted_columns' = <<>>
    /\ hash_fields' = <<>>
    /\ field_load_lines' = <<>>
    /\ field_comments' = <<>>
    /\ UNCHANGED <<files, stdout>>

Next ==
    \/ ReadSchema
    \/ AppendHeader
    \/ EnterTables
    \/ ProcessTable
    \/ WriteOutput
    \/ PrintConfirmation
    \/ Rerun

Spec == Init /\ [][Next]_vars

(***************************************************************************)
(* What the properties below talk about.                                   *)
(***************************************************************************)
\* An iteration of the table loop has completed; the locals are its values.
TableDone == pc \in {"tables", "write", "written", "done"} /\ i > 1

\* Every table block has been built.
AllBuilt == pc \in {"write", "written", "done"}

DoneTable == schema_data.tables.items[i - 1]
DoneHasColumns == DoneTable[2].columns.kind = "map"

\* The names of the table's columns, and those that are not dropped.
DoneColumnNames ==
    {DoneTable[2].columns.items[k][1] : k \in 1..Len(DoneTable[2].columns.items)}
KeptColumnNames == {n \in DoneColumnNames : ~StartsWith(n, DltPrefix)}

NamesOf(list) == {list[k][1] : k \in 1..Len(list)}

\* The number of underscores s ends with.
TrailingUnderscores(s) ==
    Cardinality({k \in 1..Len(s) : \A j \in k..Len(s) : s[j] = "_"})

\* e is the last piece of name split on "__" from the left: nothing of name
\* when name has no "__", else what follows a "__" that ends an even-length
\* run of underscores, with no "__" after it.
IsLastPiece(e, name) ==
    /\ ~Contains(e, Sep)
    /\ \E q \in {SubSeq(name, 1, k) : k \in 0..Len(name)} :
          /\ name = q \o e
          /\ \/ q = <<>>
             \/ EndsWith(q, Sep) /\ TrailingUnderscores(q) % 2 = 0

\* The part of name after the last occurrence of "__" (name itself if none).
AfterLastSep(name) ==
    IF ~Contains(name, Sep) THEN name
    ELSE LET k == CHOOSE k \in 1..(Len(name) - 1) :
                     /\ SubSeq(name, k, k + 1) = Sep
                     /\ \A j \in (k + 1)..(Len(name) - 1) : SubSeq(name, j, j + 1) # Sep
         IN  SubSeq(name, k + 2, Len(name))

\* The classification of claim C1, for the entity name e.
ClassifiedBy(e) ==
    /\ \A n \in DoneColumnNames :
          LET dropped == StartsWith(n, DltPrefix)
              system == ~dropped /\ n \in {Rowguid, ModifiedDate}
              key == ~dropped /\ ~system /\ EndsWith(n, IdSuffix)
          IN  /\ n \in NamesOf(system_fields) <=> system
              /\ n \in NamesOf(primary_keys) <=> key /\ Contains(n, e)
              /\ n \in NamesOf(foreign_keys) <=> key /\ ~Contains(n, e)
              /\ n \in NamesOf(regular_fields) <=> ~dropped /\ ~system /\ ~key
    /\ \A a, b \in {primary_keys, foreign_keys, regular_fields, system_fields} :
          a # b => NamesOf(a) \cap NamesOf(b) = {}
    /\ NamesOf(primary_keys) \cup NamesOf(foreign_keys) \cup NamesOf(regular_fields)
          \cup NamesOf(system_fields) = KeptColumnNames
    /\ Len(primary_keys) + Len(foreign_keys) + Len(regular_fields) + Len(system_fields)
          = Cardinality(KeptColumnNames)

(***************************************************************************)
(* C1.  Every column of a table goes to exactly one outcome, by            *)
(* precedence: dropped (_dlt_ prefix), system field, primary key (ends in  *)
(* _id and contains the entity name), foreign key (ends in _id), regular   *)
(* field; the four lists are disjoint and hold exactly the columns that    *)
(* are not dropped.                                                        *)
(***************************************************************************)
\* C1 as stated: the entity name is the part of the table name after the
\* last "__".
C1_ClassifiedByPartAfterLastSeparator ==
    TableDone /\ DoneHasColumns => ClassifiedBy(AfterLastSep(table_name))

\* C1, amended: the entity name is the last piece of the table name split on
\* "__" from the left.
C1_ClassifiedByLastSplitPiece ==
    TableDone /\ DoneHasColumns =>
        /\ IsLastPiece(entity_name, table_name)
        /\ ClassifiedBy(entity_name)

\* A table with a dropped column and a column in every list.
C1_Witness ==
    /\ TableDone /\ DoneHasColumns
    /\ KeptColumnNames # DoneColumnNames
    /\ primary_keys # <<>> /\ foreign_keys # <<>>
    /\ regular_fields # <<>> /\ system_fields # <<>>

(***************************************************************************)
(* C10.  The entity name is the last piece of the table name split on      *)
(* "__": the whole name when it has no "__", and empty when the name is    *)
(* empty or ends with "__"; then every kept column ending in _id is a      *)
(* primary key and there is no foreign key.                                *)
(***************************************************************************)
\* Every kept column that ends in _id is a primary key, none a foreign key.
AllKeysPrimary ==
    DoneHasColumns =>
        /\ \A n \in KeptColumnNames :
              EndsWith(n, IdSuffix) => n \in NamesOf(primary_keys)
        /\ foreign_keys = <<>>

\* C10 as stated.
C10_EmptyEntityWhenNameEndsWithSeparator ==
    TableDone =>
        /\ IsLastPiece(entity_name, table_name)
        /\ ~Contains(table_name, Sep) => entity_name = table_name
        /\ table_name = <<>> \/ EndsWith(table_name, Sep) =>
              entity_name = <<>> /\ AllKeysPrimary

\* C10, amended: a name that ends with "__" gives the empty entity name when
\* it ends with an even number of underscores and the entity name "_" when
\* it ends with an odd number; both are part of every name ending in _id.
C10_EntityOfNameEndingWithSeparator ==
    TableDone =>
        /\ IsLastPiece(entity_name, table_name)
        /\ ~Contains(table_name, Sep) => entity_name = table_name
        /\ table_name = <<>> \/ EndsWith(table_name, Sep) =>
              /\ entity_name = IF TrailingUnderscores(table_name) % 2 = 0
                               THEN <<>> ELSE <<"_">>
              /\ AllKeysPrimary

\* A table whose name ends with "__" and that has a column ending in _id.
C10_Witness ==
    /\ TableDone /\ DoneHasColumns
    /\ EndsWith(table_name, Sep)
    /\ entity_name = <<>>
    /\ \E n \in KeptColumnNames : EndsWith(n, IdSuffix)

(***************************************************************************)
(* The table blocks of the output, found by their banner line.             *)
(***************************************************************************)
BannerAt(k) == Len(output[k]) > 0 /\ output[k][1] = "    Extracting "
Banners == {k \in 1..Len(output) : BannerAt(k)}

\* The j-th of the banner lines bs.
NthBanner(bs, j) == CHOOSE b \in bs : Cardinality({c \in bs : c < b}) = j - 1

\* Block j starts two lines before its banner line and ends before the next.
BlockFirst(bs, j) == NthBanner(bs, j) - 2
BlockLast(bs, j) ==
    IF j = Cardinality(bs) THEN Len(output) ELSE NthBanner(bs, j + 1) - 3

\* The block of the table whose iteration has completed: the last one.
DoneFirst == LET bs == Banners IN BlockFirst(bs, Cardinality(bs))

\* Where a line occurs among the lines lo to hi.
LinesIn(lo, hi, line) == {k \in lo..hi : output[k] = line}
FirstIn(lo, hi, line) ==
    LET at == LinesIn(lo, hi, line) IN CHOOSE k \in at : \A m \in at : k <= m

HashOpen == <<"Set ", "var__record_hash", " = Hash256(">>

\* The hash field list of the block from lo to hi: the lines between
\* "Hash256(" and ")".
EmittedHashList(lo, hi) ==
    LET h == FirstIn(lo, hi, HashOpen)
        c == CHOOSE c \in (h + 1)..hi :
                 /\ output[c] = L(")")
                 /\ \A m \in (h + 1)..(c - 1) : output[m] # L(")")
    IN  SubSeq(output, h + 1, c - 1)

\* The field projection list of the block from lo to hi: the lines between
\* the last "Load" and the blank line before "From".
EmittedLoadList(lo, hi) ==
    LET f == FirstIn(lo, hi, L("From"))
        l == CHOOSE l \in lo..(f - 1) :
                 /\ output[l] = L("Load")
                 /\ \A m \in (l + 1)..(f - 1) : output[m] # L("Load")
    IN  SubSeq(output, l + 1, f - 2)

EndsWithComma(line) == Len(line) > 0 /\ line[Len(line)] = ","
WithoutComma(line) == IF EndsWithComma(line) THEN SubSeq(line, 1, Len(line) - 1) ELSE line

\* The column a hash field line names: what is between "    [" and "]".
HashLineName(line) == LET e == WithoutComma(line) IN SubSeq(e, 2, Len(e) - 1)

\* 1 to 4: primary key, foreign key, regular field, system field.
Rank(n) ==
    IF n \in NamesOf(primary_keys) THEN 1
    ELSE IF n \in NamesOf(foreign_keys) THEN 2
    ELSE IF n \in NamesOf(regular_fields) THEN 3
    ELSE 4

(***************************************************************************)
(* C2.  The hash field list and the field projection list of a table name  *)
(* the same columns in the same order: primary keys, foreign keys, regular *)
(* fields, system fields, each sorted by name (modified_date before        *)
(* rowguid); the list is a permutation of the columns that are not         *)
(* dropped.                                                                *)
(***************************************************************************)
C2_ListsInCategoryThenNameOrder ==
    TableDone /\ DoneHasColumns =>
        LET lo == DoneFirst
            hashes == EmittedHashList(lo, Len(output))
            loads == EmittedLoadList(lo, Len(output))
            N == Len(hashes)
            name(k) == HashLineName(hashes[k])
        IN  /\ hashes = hash_fields
            /\ loads = field_load_lines
            /\ Len(loads) = N
            /\ \A k \in 1..N :
                  /\ WithoutComma(hashes[k]) = <<"    [">> \o name(k) \o <<"]">>
                  /\ WithoutComma(loads[k]) =
                        <<"    Text([">> \o name(k) \o <<"]) As [">> \o name(k) \o <<"]">>
            /\ {name(k) : k \in 1..N} = KeptColumnNames
            /\ N = Cardinality(KeptColumnNames)
            /\ \A a, b \in 1..N :
                  a < b => \/ Rank(name(a)) < Rank(name(b))
                           \/ /\ Rank(name(a)) = Rank(name(b))
                              /\ StrLess(name(a), name(b))
            /\ \A a, b \in 1..N :
                  name(a) = ModifiedDate /\ name(b) = Rowguid => a < b

\* A table whose schema has rowguid before a_id and whose lists start with
\* a_id.
C2_Witness ==
    /\ TableDone /\ DoneHasColumns
    /\ Len(hash_fields) >= 2
    /\ \E a, b \in 1..Len(DoneTable[2].columns.items) :
          /\ a < b
          /\ DoneTable[2].columns.items[a][1] = Rowguid
          /\ DoneTable[2].columns.items[b][1] = <<"a", "_", "i", "d">>
    /\ HashLineName(hash_fields[1]) = <<"a", "_", "i", "d">>

(***************************************************************************)
(* C8.  With N columns kept, both lists have N lines, the first N-1 end    *)
(* with a comma and the last does not; with N = 0 (no columns key, or only *)
(* dropped columns) both lists are empty and the lines around them are     *)
(* still emitted.                                                          *)
(***************************************************************************)
\* The number of columns of the table that are not dropped.
KeptCount == IF DoneHasColumns THEN Cardinality(KeptColumnNames) ELSE 0

C8_CommaOnAllButLast ==
    TableDone =>
        LET lo == DoneFirst
            hi == Len(output)
            hashes == EmittedHashList(lo, hi)
            loads == EmittedLoadList(lo, hi)
            h == FirstIn(lo, hi, HashOpen)
            f == FirstIn(lo, hi, L("From"))
        IN  /\ Len(hashes) = KeptCount
            /\ Len(loads) = KeptCount
            /\ \A k \in 1..KeptCount :
                  /\ EndsWithComma(hashes[k]) <=> k < KeptCount
                  /\ EndsWithComma(loads[k]) <=> k < KeptCount
            /\ Cardinality(LinesIn(lo, hi, HashOpen)) = 1
            /\ output[h + KeptCount + 1] = L(")")
            /\ output[h + KeptCount + 2] = L(";")
            /\ output[f - KeptCount - 2] = L("Load")
            /\ output[f - 1] = Blank

\* A table with columns of which none is kept.
C8_Witness ==
    /\ TableDone /\ DoneHasColumns
    /\ DoneColumnNames # {}
    /\ KeptCount = 0
    /\ hash_fields = <<>>

(***************************************************************************)
(* C7.  In every Comment Field and Comment Table line each single quote of *)
(* the description is replaced by $(=Chr39()), so the only single quotes   *)
(* after With are the two delimiters, and the line ends with ";"; a        *)
(* description without a single quote is emitted unchanged.                *)
(***************************************************************************)
QuotesIn(s) == {k \in 1..Len(s) : s[k] = Quote}

\* Where character k of the description starts in its escaped form.
EscapedAt(d, k) == k + (Len(Chr39) - 1) * Cardinality({j \in QuotesIn(d) : j < k})

\* e is d with every single quote replaced by $(=Chr39()).
IsEscaped(d, e) ==
    /\ Len(e) = Len(d) + (Len(Chr39) - 1) * Cardinality(QuotesIn(d))
    /\ \A k \in 1..Len(d) :
          IF d[k] = Quote
          THEN SubSeq(e, EscapedAt(d, k), EscapedAt(d, k) + Len(Chr39) - 1) = Chr39
          ELSE e[EscapedAt(d, k)] = d[k]

\* line is the comment statement opened by head, for name and description d.
IsComment(line, head, name, d) ==
    LET n == Len(name)
        body == SubSeq(line, n + 4, Len(line) - 2)
    IN  /\ Len(line) >= n + 5
        /\ line[1] = head
        /\ SubSeq(line, 2, n + 1) = name
        /\ line[n + 2] = "] With "
        /\ line[n + 3] = Quote
        /\ line[Len(line) - 1] = Quote
        /\ line[Len(line)] = ";"
        /\ QuotesIn(body) = {}
        /\ IsEscaped(d, body)
        /\ QuotesIn(d) = {} => body = d

\* What follows the first "] With " of a line.
AfterWith(line) ==
    LET w == CHOOSE w \in 1..Len(line) :
                 /\ line[w] = "] With "
                 /\ \A m \in 1..(w - 1) : line[m] # "] With "
    IN  SubSeq(line, w + 1, Len(line))

\* The kept columns of the table that have a description, in list order.
Described == SelectSeq(sorted_columns, LAMBDA c : c[2].description.kind = "str")

C7_QuotesEscapedInComments ==
    TableDone =>
        LET lo == DoneFirst
            hi == Len(output)
        IN  /\ DoneHasColumns =>
                  /\ Len(field_comments) = Len(Described)
                  /\ \A k \in 1..Len(Described) :
                        /\ IsComment(field_comments[k], "Comment Field [",
                                     Described[k][1], Described[k][2].description.chars)
                        /\ LinesIn(lo, hi, <<"    ">> \o field_comments[k]) # {}
            /\ ~DoneHasColumns => field_comments = <<>>
            /\ DoneTable[2].description.kind = "str" =>
                  \E k \in lo..hi :
                      IsComment(output[k], "    Comment Table [", table_name,
                                DoneTable[2].description.chars)
            /\ \A k \in lo..hi :
                  /\ Len(output[k]) > 0
                  /\ output[k][1] \in {"    Comment Table [", "    "}
                  => Cardinality(QuotesIn(AfterWith(output[k]))) = 2

\* A table and a column whose descriptions have two single quotes or more.
C7_Witness ==
    /\ TableDone /\ DoneHasColumns
    /\ Cardinality(QuotesIn(DoneTable[2].description.chars)) >= 2
    /\ \E k \in 1..Len(Described) :
          Cardinality(QuotesIn(Described[k][2].description.chars)) >= 2

(***************************************************************************)
(* C5.  For K tables the output is the header followed by exactly K table  *)
(* blocks in the order of the tables mapping, and in every block each of   *)
(* the five per-table variables is assigned Null() after its last use in   *)
(* the block and before the next block starts.                             *)
(***************************************************************************)
TableCount ==
    IF schema_data.tables.kind = "map" THEN Len(schema_data.tables.items) ELSE 0

Mentions(line, v) == \E k \in 1..Len(line) : line[k] = v
ResetOf(v) == <<"Let ", v, " = Null();">>

C5_BlocksInOrderAndVariablesReset ==
    AllBuilt =>
        LET bs == Banners
        IN  /\ SubSeq(output, 1, Len(Header)) = Header
            /\ Cardinality(bs) = TableCount
            /\ TableCount = 0 => output = Header
            /\ TableCount > 0 => BlockFirst(bs, 1) = Len(Header) + 1
            /\ \A j \in 1..TableCount :
                  LET lo == BlockFirst(bs, j)
                      hi == BlockLast(bs, j)
                  IN  /\ output[lo + 2] =
                            <<"    Extracting ">> \o schema_data.tables.items[j][1]
                      /\ output[lo] = L("Trace")
                      /\ output[hi] = Blank
                      /\ \A v \in PerTableVars :
                            LET uses == {k \in lo..hi : Mentions(output[k], v)}
                                resets == LinesIn(lo, hi, ResetOf(v))
                            IN  /\ Cardinality(resets) = 1
                                /\ uses \ resets # {}
                                /\ \A k \in uses, r \in resets : k <= r

\* Two blocks have been built and written.
C5_Witness ==
    /\ pc = "done"
    /\ TableCount = 2
    /\ Cardinality(Banners) = 2

(***************************************************************************)
(* C9.  Every table block emits its parts in the order of the numbered     *)
(* sequence of the specification.                                          *)
(***************************************************************************)
TraceNewData ==
    <<"Trace Loading new data with incremental value $(", "val__incremental_value", ")...;">>

\* The first line of each part of a block, but for the hash calculation and
\* the trace message of the new-data load.
PartsBefore(T) ==
    << <<"    Extracting ">> \o T,
       L("Trace Setting variables...;"),
       L("Trace Define hash table...;"),
       L("Trace Checking if target QVD exists...;") >>

PartsAfter(T) ==
    << <<"[">> \o T \o <<"]:">>,
       L("Trace Dropping hash table...;"),
       L("Trace Counting new records...;"),
       L("Trace Checking if there are new records...;"),
       L("    Trace Storing data...;"),
       L("Trace Dropping table...;"),
       L("Trace Resetting variables...;") >>

\* Each of the lines occurs once among the lines lo to hi, in the order given.
InOrder(lo, hi, lines) ==
    LET at == [k \in 1..Len(lines) |-> LinesIn(lo, hi, lines[k])]
    IN  /\ \A k \in 1..Len(lines) : Cardinality(at[k]) = 1
        /\ \A k \in 1..(Len(lines) - 1) : \A a \in at[k], b \in at[k + 1] : a < b

\* C9 as stated: the hash calculation comes before the trace message that
\* opens the new-data load.
C9_HashCalculationBeforeLoadTrace ==
    AllBuilt =>
        LET bs == Banners
        IN  \A j \in 1..TableCount :
                LET T == schema_data.tables.items[j][1]
                IN  InOrder(BlockFirst(bs, j), BlockLast(bs, j),
                            PartsBefore(T) \o <<HashOpen, TraceNewData>> \o PartsAfter(T))

\* C9, amended: the trace message naming $(val__incremental_value) is the
\* line right before the hash calculation, which comes before the load.
C9_LoadTraceRightBeforeHashCalculation ==
    AllBuilt =>
        LET bs == Banners
        IN  \A j \in 1..TableCount :
                LET T == schema_data.tables.items[j][1]
                    lo == BlockFirst(bs, j)
                    hi == BlockLast(bs, j)
                IN  /\ InOrder(lo, hi,
                               PartsBefore(T) \o <<TraceNewData, HashOpen>> \o PartsAfter(T))
                    /\ FirstIn(lo, hi, HashOpen) = FirstIn(lo, hi, TraceNewData) + 1
                    /\ output[hi] = Blank

\* A block has been built and written.
C9_Witness ==
    /\ pc = "done"
    /\ TableCount >= 1
    /\ LinesIn(1, Len(output), TraceNewData) # {}
    /\ LinesIn(1, Len(output), HashOpen) # {}

(***************************************************************************)
(* C3.  For every document the loader parses, an empty document and a      *)
(* document without a tables key included, the output starts with the six  *)
(* header lines; without a tables key it is exactly the header.            *)
(***************************************************************************)
NoTablesKey ==
    \/ schema_file.kind = "none"
    \/ schema_file.kind = "map" /\ schema_file.tables.kind = "absent"

\* The content starts with the six lines of the header.
StartsWithHeader(content) ==
    /\ StartsWith(content, Join(Header))
    /\ Len(content) > Len(Join(Header)) => content[Len(Join(Header)) + 1] = "\n"

\* C3 as stated: a parsed document without a tables key never makes the run
\* fail in a directory that can be written, and what is written starts
\* with the header.
C3_HeaderForEveryParsedDocument ==
    /\ NoTablesKey /\ out_file.kind # "nodir" => pc # "failed"
    /\ pc \in {"written", "done"} =>
          /\ StartsWithHeader(out_file.content)
          /\ NoTablesKey => out_file.content = Join(Header)

(***************************************************************************)
(* C4.  When the run fails before the final write, no output file is       *)
(* created, an existing output file keeps its content and no confirmation  *)
(* is printed; the file is written once, after every table block is built. *)
(* A failure before the final write is one of a step other than the write  *)
(* step; the write step itself may fail after it has emptied the file.     *)
(***************************************************************************)
C4_NoWriteBeforeAllBlocksBuilt ==
    [][ /\ out_file' # out_file =>
              /\ pc = "write"
              /\ Cardinality(Banners) = TableCount
        /\ pc' = "failed" /\ pc # "write" => out_file' = out_file /\ stdout' = stdout
        /\ pc' = "failed" /\ pc # "write" /\ run' = 1 =>
              out_file' \in {NoDirectory, NoFile, OldFile} /\ stdout' = <<>>
        /\ pc' = "failed" => stdout' = stdout
        /\ stdout' # stdout => pc = "written" ]_vars

\* The second table raises after the block of the first was built, and the
\* file that was there is still there.
C4_Witness ==
    /\ pc = "failed"
    /\ i = 2
    /\ Cardinality(Banners) = 1
    /\ out_file = OldFile
    /\ stdout = <<>>

(***************************************************************************)
(* C6.  Two runs on the same schema and output directory leave the same    *)
(* file content: the second run overwrites the file, it does not append.   *)
(***************************************************************************)
C6_SecondRunLeavesSameContent ==
    [][ /\ run > 1 => out_file' = out_file
        /\ pc = "write" /\ pc' = "written" => out_file'.content = Join(output)
        /\ out_file' # out_file /\ out_file = OldFile =>
              \A k \in 1..Len(out_file'.content) :
                  out_file'.content[k] # OldFile.content[1] ]_vars

\* The second run has written a file with a table block.
C6_Witness ==
    /\ run = 2
    /\ pc = "done"
    /\ TableCount >= 1
    /\ out_file.kind = "file"
    /\ Len(stdout) = 2

====
